---- MODULE Spec2Model ----
(***************************************************************************)
(* Model of the backtracking Sudoku solver of sudoku_solver/sudoku.py.     *)
(*                                                                         *)
(* A board is built from a flat row-major list of integers (0 = empty).    *)
(* The recursive method Sudoku.solve is unfolded into an explicit call     *)
(* stack: one frame per live invocation of solve, one step per call of     *)
(* find_best_cell, per tested candidate and per return.  Rows, columns and *)
(* cells are indexed from 0 as in the source; the input list `numbers`     *)
(* is a TLA+ sequence, so numbers[k] of the source is numbers[k + 1] here. *)
(***************************************************************************)
EXTENDS Integers, Sequences, FiniteSets

(***************************************************************************)
(* Bounds of the checked input families.                                   *)
(***************************************************************************)
MaxGivens == 1
MaxLowerGivens == 2
MaxAlter == 1
MaxBlank == 2
MaxSmallLen == 4
MaxSmallVal == 2
MaxCalls == 2

VARIABLES numbers, dimension, block_size, grid, stack, ret, last, start, calls, undos

vars == <<numbers, dimension, block_size, grid, stack, ret, last, start, calls, undos>>

(***************************************************************************)
(* Construction: Sudoku.__init__                                           *)
(***************************************************************************)

\* int(np.sqrt(n)) for a non-negative integer n
ISqrt(n) == CHOOSE k \in 0..n : k * k <= n /\ (k + 1) * (k + 1) > n

\* self.dimension = int(np.sqrt(len(numbers)))
InitDimension(nums) == ISqrt(Len(nums))

\* self.block_size: the square root of the dimension from 4 on, else the dimension
InitBlockSize(nums) ==
    IF InitDimension(nums) >= 4 THEN ISqrt(InitDimension(nums)) ELSE InitDimension(nums)

\* self.grid[i][j] = Cell(numbers[i * dimension + j])
InitGrid(nums) ==
    [i \in 0..(InitDimension(nums) - 1) |->
        [j \in 0..(InitDimension(nums) - 1) |-> nums[i * InitDimension(nums) + j + 1]]]

\* __init__ raises (IndexError) when an index i * dimension + j of the list
\* comprehension lies outside numbers; it has no other check and no raise statement
init_raises(nums) ==
    \E i \in 0..(InitDimension(nums) - 1), j \in 0..(InitDimension(nums) - 1) :
        i * InitDimension(nums) + j > Len(nums) - 1

(***************************************************************************)
(* Accessors and the legality check.  The grid is passed explicitly so the *)
(* operators can be applied to the current grid and to remembered ones.    *)
(***************************************************************************)

\* get_row: the list self.grid[row]
get_row(g, row) == g[row]

\* a get_col that returns the row of the same index
get_col_as_row(g, col) == g[col]

\* get_col: [self.grid[row][col] for row in range(self.dimension)]
get_col(g, col) == [row \in 0..(dimension - 1) |-> g[row][col]]

\* get_block raises IndexError when one of the indices it reads is outside the grid
get_block_raises(block_row, block_col) ==
    /\ dimension > 3
    /\ \E i \in (block_row * block_size)..((block_row + 1) * block_size - 1),
          j \in (block_col * block_size)..(block_size * (block_col + 1) - 1) :
            i > dimension - 1 \/ j > dimension - 1

\* a get_block whose column range is computed from block_row
get_block_row_twice(g, block_row, block_col) ==
    IF dimension <= 3
    THEN g
    ELSE [a \in 0..(block_size - 1) |->
            [b \in 0..(block_size - 1) |->
                g[block_row * block_size + a][block_row * block_size + b]]]

\* get_block: the whole grid up to dimension 3, else the block_size x block_size
\* sub-grid of rows block_row*block_size.. and columns block_col*block_size..
get_block(g, block_row, block_col) ==
    IF dimension <= 3
    THEN g
    ELSE [a \in 0..(block_size - 1) |->
            [b \in 0..(block_size - 1) |->
                g[block_row * block_size + a][block_col * block_size + b]]]

\* any(cell.value == number for cell in <list>)
AnyEquals(list, number) == \E k \in DOMAIN list : list[k] = number

\* a block test that looks at the first row of the block only
AnyInFirstRow(block, number) ==
    \E a \in DOMAIN block :
        /\ \A a2 \in DOMAIN block : a <= a2
        /\ \E b \in DOMAIN block[a] : block[a][b] = number

\* any(cell.value == number for r in block for cell in r)
AnyInBlock(block, number) == \E a \in DOMAIN block : \E b \in DOMAIN block[a] : block[a][b] = number

\* is_valid raises IndexError: neither the row nor the column test returned and
\* get_block reads outside the grid
is_valid_raises(g, row, col, number) ==
    /\ ~ AnyEquals(get_row(g, row), number)
    /\ ~ AnyEquals(get_col(g, col), number)
    /\ get_block_raises(row \div ISqrt(dimension), col \div ISqrt(dimension))

\* is_valid (when it does not raise)
is_valid(g, row, col, number) ==
    IF AnyEquals(get_row(g, row), number) THEN FALSE
    ELSE IF AnyEquals(get_col(g, col), number) THEN FALSE
    ELSE LET block_row == row \div ISqrt(dimension)
             block_col == col \div ISqrt(dimension)
             block == get_block(g, block_row, block_col)
         IN  IF AnyInBlock(block, number) THEN FALSE ELSE TRUE

(***************************************************************************)
(* find_best_cell                                                          *)
(***************************************************************************)

\* the value None
None == <<>>
\* the outcome "IndexError raised"
IndexError == <<-1>>

IsCell(x) == Len(x) = 2

\* float('inf'): no list of options is longer than dimension
Infinity == dimension + 1

\* the comprehension [num for num in range(1, dimension + 1) if is_valid(row, col, num)]
options_raises(g, row, col) == \E num \in 1..dimension : is_valid_raises(g, row, col, num)
options(g, row, col) == {num \in 1..dimension : is_valid(g, row, col, num)}

\* the loops without the early return of lines 146-147
RECURSIVE scan_without_exit(_, _, _, _)
scan_without_exit(g, k, min_options, best_cell) ==
    IF k >= dimension * dimension
    THEN best_cell
    ELSE LET row == k \div dimension
             col == k % dimension
         IN  IF g[row][col] = 0
             THEN IF options_raises(g, row, col)
                  THEN IndexError
                  ELSE LET n == Cardinality(options(g, row, col))
                       IN  IF n < min_options
                           THEN scan_without_exit(g, k + 1, n, <<row, col>>)
                           ELSE scan_without_exit(g, k + 1, min_options, best_cell)
             ELSE scan_without_exit(g, k + 1, min_options, best_cell)

\* the loops with <= in the comparison of line 143, so that a later cell with
\* as many options replaces the best cell
RECURSIVE scan_last_wins(_, _, _, _)
scan_last_wins(g, k, min_options, best_cell) ==
    IF k >= dimension * dimension
    THEN best_cell
    ELSE LET row == k \div dimension
             col == k % dimension
         IN  IF g[row][col] = 0
             THEN IF options_raises(g, row, col)
                  THEN IndexError
                  ELSE LET n == Cardinality(options(g, row, col))
                       IN  IF n <= min_options
                           THEN IF n = 1
                                THEN <<row, col>>
                                ELSE scan_last_wins(g, k + 1, n, <<row, col>>)
                           ELSE IF min_options = 1
                                THEN best_cell
                                ELSE scan_last_wins(g, k + 1, min_options, best_cell)
             ELSE scan_last_wins(g, k + 1, min_options, best_cell)

\* the two nested loops of find_best_cell from cell number k on (row-major),
\* with the loop's locals min_options and best_cell: on an empty cell the two
\* locals are updated if len(options) < min_options, and best_cell is returned
\* at once if min_options == 1 after that
RECURSIVE scan(_, _, _, _)
scan(g, k, min_options, best_cell) ==
    IF k >= dimension * dimension
    THEN best_cell
    ELSE LET row == k \div dimension
             col == k % dimension
         IN  IF g[row][col] = 0
             THEN IF options_raises(g, row, col)
                  THEN IndexError
                  ELSE LET n == Cardinality(options(g, row, col))
                       IN  IF n < min_options
                           THEN IF n = 1
                                THEN <<row, col>>
                                ELSE scan(g, k + 1, n, <<row, col>>)
                           ELSE IF min_options = 1
                                THEN best_cell
                                ELSE scan(g, k + 1, min_options, best_cell)
             ELSE scan(g, k + 1, min_options, best_cell)

\* a find_best_cell whose best_cell starts as the first cell instead of None
find_best_cell_from_first(g) == scan(g, 0, Infinity, IF dimension > 0 THEN <<0, 0>> ELSE None)

\* find_best_cell: min_options = float('inf'), best_cell = None, then the loops
find_best_cell(g) == scan(g, 0, Infinity, None)

(***************************************************************************)
(* Input families                                                          *)
(***************************************************************************)

\* boards of side N with at most k filled cells, all of them among the positions
\* `cells` of the flat list
RECURSIVE Givens(_, _, _)
Givens(N, cells, k) ==
    IF k = 0
    THEN {[i \in 1..(N * N) |-> 0]}
    ELSE LET S == Givens(N, cells, k - 1)
         IN  S \cup {[b EXCEPT ![p] = v] : b \in S, p \in cells, v \in 1..N}

\* the positions (in the flat list) of cells (2,0), (2,1), (3,2) of a 4 x 4 board
LowerCells == {9, 10, 15}

\* a completed 4 x 4 grid
Solved4 == <<1, 2, 3, 4,
             3, 4, 1, 2,
             2, 1, 4, 3,
             4, 3, 2, 1>>

\* the positions of cells (0,0), (0,1), (0,2), (1,0), (1,1), (2,0) of a 4 x 4 board
CornerCells == {1, 2, 3, 5, 6, 9}

\* the boards of S with at most k cells of the corner overwritten by a value of vals
RECURSIVE Overwrite(_, _, _)
Overwrite(S, vals, k) ==
    IF k = 0
    THEN S
    ELSE LET T == Overwrite(S, vals, k - 1)
         IN  T \cup {[b EXCEPT ![p] = v] : b \in T, p \in CornerCells, v \in vals}

\* the completed grid with at most MaxAlter digits of the corner changed and at
\* most MaxBlank cells of the corner emptied
Dense == Overwrite(Overwrite({Solved4}, 1..4, MaxAlter), {0}, MaxBlank)

\* every list of at most MaxSmallLen values in 0..MaxSmallVal (any length, any value)
Small == UNION {[1..n -> 0..MaxSmallVal] : n \in 0..MaxSmallLen}

\* the puzzle of the __main__ block
Demo == <<0, 5, 0, 8, 0, 2, 0, 0, 7,
          0, 9, 7, 6, 1, 0, 4, 0, 0,
          3, 0, 0, 0, 4, 0, 0, 2, 1,
          0, 8, 2, 7, 0, 0, 5, 0, 0,
          0, 0, 0, 0, 5, 9, 8, 4, 0,
          0, 0, 6, 3, 0, 0, 0, 0, 0,
          8, 0, 0, 0, 0, 6, 0, 9, 2,
          4, 3, 0, 9, 0, 0, 0, 6, 0,
          6, 0, 0, 1, 7, 5, 3, 8, 0>>

\* the checked inputs: 3 x 3 boards with few givens, 5 x 5 boards with few givens
\* in the first row, 4 x 4 boards with few givens in the lower rows, nearly
\* complete 4 x 4 boards, every short list, and the puzzle of __main__
Inputs ==
    Givens(3, 1..9, MaxGivens) \cup Givens(5, 1..5, MaxGivens)
        \cup Givens(4, LowerCells, MaxLowerGivens) \cup Dense \cup Small \cup {Demo}

(***************************************************************************)
(* The state machine                                                       *)
(***************************************************************************)

\* A frame of solve that has not yet called find_best_cell.  pc is the position
\* in solve ("select": at line 157, "try": at the head of the for loop, "wait":
\* in the recursive call of line 165); row, col, num are the locals.  entry (the
\* grid when the invocation began) and tried (the number of assignments it has
\* made) are history fields that no step reads, as are the variables last (the
\* frame of the invocation that returned last), start (the grid when the
\* top-level call began), calls (the number of top-level calls so far) and undos
\* (the number of undone assignments in the current top-level call).
NewFrame(g) == [pc |-> "select", row |-> -1, col |-> -1, num |-> 0, entry |-> g, tried |-> 0]

Top == stack[Len(stack)]
Pop == SubSeq(stack, 1, Len(stack) - 1)
ReplaceTop(f) == [stack EXCEPT ![Len(stack)] = f]

Init ==
    /\ numbers \in Inputs
    /\ ~ init_raises(numbers)
    /\ dimension = InitDimension(numbers)
    /\ block_size = InitBlockSize(numbers)
    /\ grid = InitGrid(numbers)
    /\ stack = <<>>
    /\ ret = "none"
    /\ last = NewFrame(InitGrid(numbers))
    /\ start = InitGrid(numbers)
    /\ calls = 0
    /\ undos = 0

\* an assignment with the two indices exchanged
SetCellSwapped(g, row, col, value) == [g EXCEPT ![col][row] = value]

\* self.grid[row][col].value = value
SetCell(g, row, col, value) == [g EXCEPT ![row][col] = value]

\* a solve that forgets the undo
UndoForgotten(g, row, col) == g

\* the undo of line 167: self.grid[row][col].value = 0
Undo(g, row, col) == SetCell(g, row, col, 0)

\* a for loop that offers the same number again
NextCandidateStuck(num) == num

\* for num in range(1, self.dimension + 1): the number after num
NextCandidate(num) == num + 1

\* a for loop over range(1, self.dimension + 2)
LastCandidateLong == dimension + 1

\* a for loop over range(1, self.dimension)
LastCandidateShort == dimension - 1

\* the candidates of the for loop of solve: range(1, self.dimension + 1)
LastCandidate == dimension

\* a caller invokes sudoku.solve() on the freshly constructed board
Call ==
    /\ stack = <<>>
    /\ calls = 0
    /\ stack' = <<NewFrame(grid)>>
    /\ ret' = "none"
    /\ start' = grid
    /\ calls' = calls + 1
    /\ undos' = 0
    /\ UNCHANGED <<numbers, dimension, block_size, grid, last>>

\* the caller invokes sudoku.solve() once more after a call that returned True
CallAgain ==
    /\ stack = <<>>
    /\ ret = "true"
    /\ calls < MaxCalls
    /\ stack' = <<NewFrame(grid)>>
    /\ ret' = "none"
    /\ start' = grid
    /\ calls' = calls + 1
    /\ undos' = 0
    /\ UNCHANGED <<numbers, dimension, block_size, grid, last>>

\* best = self.find_best_cell(): an IndexError unwinds every frame; None makes
\* solve return True; else row, col = best and the for loop starts with num = 1
Select ==
    /\ stack # <<>> /\ Top.pc = "select"
    /\ LET best == find_best_cell(grid)
       IN  IF best = IndexError
           THEN /\ stack' = <<>>
                /\ ret' = "error"
                /\ last' = last
           ELSE IF best = None
           THEN /\ stack' = Pop
                /\ ret' = "true"
                /\ last' = Top
           ELSE /\ stack' = ReplaceTop([Top EXCEPT !.pc = "try", !.row = best[1],
                                                   !.col = best[2], !.num = 1])
                /\ ret' = ret
                /\ last' = last
    /\ UNCHANGED <<numbers, dimension, block_size, grid, start, calls, undos>>

\* one iteration of the for loop: if self.is_valid(row, col, num) the cell is set
\* and solve is called recursively, else the loop goes on with the next number
Try ==
    /\ stack # <<>> /\ Top.pc = "try"
    /\ Top.num <= LastCandidate
    /\ IF is_valid_raises(grid, Top.row, Top.col, Top.num)
       THEN /\ stack' = <<>>
            /\ ret' = "error"
            /\ grid' = grid
       ELSE IF is_valid(grid, Top.row, Top.col, Top.num)
       THEN /\ grid' = SetCell(grid, Top.row, Top.col, Top.num)
            /\ stack' = Append(ReplaceTop([Top EXCEPT !.pc = "wait", !.tried = Top.tried + 1]),
                               NewFrame(grid'))
            /\ ret' = ret
       ELSE /\ stack' = ReplaceTop([Top EXCEPT !.num = NextCandidate(Top.num)])
            /\ grid' = grid
            /\ ret' = ret
    /\ UNCHANGED <<numbers, dimension, block_size, last, start, calls, undos>>

\* the for loop is exhausted: return False
Exhausted ==
    /\ stack # <<>> /\ Top.pc = "try"
    /\ Top.num > LastCandidate
    /\ stack' = Pop
    /\ ret' = "false"
    /\ last' = Top
    /\ UNCHANGED <<numbers, dimension, block_size, grid, start, calls, undos>>

\* if self.solve(): return True
PropagateTrue ==
    /\ stack # <<>> /\ Top.pc = "wait"
    /\ ret = "true"
    /\ stack' = Pop
    /\ last' = Top
    /\ UNCHANGED <<numbers, dimension, block_size, grid, ret, start, calls, undos>>

\* the recursive call returned False: self.grid[row][col].value = 0, next number
Backtrack ==
    /\ stack # <<>> /\ Top.pc = "wait"
    /\ ret = "false"
    /\ grid' = Undo(grid, Top.row, Top.col)
    /\ stack' = ReplaceTop([Top EXCEPT !.pc = "try", !.num = NextCandidate(Top.num)])
    /\ ret' = "none"
    /\ undos' = undos + 1
    /\ UNCHANGED <<numbers, dimension, block_size, last, start, calls>>

Next ==
    \/ Call
    \/ CallAgain
    \/ Select
    \/ Try
    \/ Exhausted
    \/ PropagateTrue
    \/ Backtrack

Spec == Init /\ [][Next]_vars

\* a step of the running call of solve
Step == Select \/ Try \/ Exhausted \/ PropagateTrue \/ Backtrack

\* solve runs synchronously in one thread: once called it keeps executing until
\* it returns or raises; nothing obliges the caller to call it
FairSpec == Spec /\ WF_vars(Step)

(***************************************************************************)
(* Notions the properties are stated with.  They are defined from the      *)
(* rules of the puzzle, not from the accessors above.                      *)
(***************************************************************************)

\* the input is a list of dimension * dimension values, each in [0, dimension]
WellFormed ==
    /\ Len(numbers) = dimension * dimension
    /\ \A i \in 1..Len(numbers) : numbers[i] \in 0..dimension

\* the side is a perfect square from 4 on
SquareSide == dimension >= 4 /\ ISqrt(dimension) * ISqrt(dimension) = dimension

\* the boards the solver is meant for: a perfect-square side, or the one-block sides up to 3
InScope == dimension <= 3 \/ SquareSide

\* the side of the blocks of a board of side N (one block up to side 3)
BlockSide(N) == IF N <= 3 THEN N ELSE ISqrt(N)

\* two cells lie in the same row, the same column or the same block
SameUnit(N, r, c, r2, c2) ==
    \/ r = r2
    \/ c = c2
    \/ r \div BlockSide(N) = r2 \div BlockSide(N) /\ c \div BlockSide(N) = c2 \div BlockSide(N)

\* no digit occurs twice in a row, a column or a block
NoRepeatN(N, g) ==
    \A r \in 0..(N - 1), c \in 0..(N - 1), r2 \in 0..(N - 1), c2 \in 0..(N - 1) :
        (<<r, c>> # <<r2, c2>> /\ g[r][c] # 0 /\ SameUnit(N, r, c, r2, c2)) => g[r][c] # g[r2][c2]

\* no cell is empty
IsFullN(N, g) == \A r \in 0..(N - 1), c \in 0..(N - 1) : g[r][c] # 0

\* digit v occurs in no cell that shares a row, a column or a block with (r, c)
Fits(N, g, r, c, v) ==
    \A r2 \in 0..(N - 1), c2 \in 0..(N - 1) :
        (<<r, c>> # <<r2, c2>> /\ SameUnit(N, r, c, r2, c2)) => g[r2][c2] # v

\* the grid g with digit v in cell (r, c)
Filled(N, g, r, c, v) ==
    [i \in 0..(N - 1) |-> [j \in 0..(N - 1) |-> IF i = r /\ j = c THEN v ELSE g[i][j]]]

\* the repetition-free fillings of the empty cells of g from cell number k on,
\* g itself being repetition-free
RECURSIVE CompletionsFrom(_, _, _)
CompletionsFrom(N, g, k) ==
    IF k >= N * N
    THEN {g}
    ELSE IF g[k \div N][k % N] # 0
    THEN CompletionsFrom(N, g, k + 1)
    ELSE LET r == k \div N
             c == k % N
         IN  UNION {CompletionsFrom(N, Filled(N, g, r, c, v), k + 1) :
                        v \in {w \in 1..N : Fits(N, g, r, c, w)}}

\* every completed 4 x 4 grid
AllSolved4 == CompletionsFrom(4, [i \in 0..3 |-> [j \in 0..3 |-> 0]], 0)

\* the valid completions of g: the full repetition-free grids that keep every filled cell of g
Completions(g) ==
    IF dimension = 4
    THEN {s \in AllSolved4 : \A r \in 0..3, c \in 0..3 : g[r][c] # 0 => s[r][c] = g[r][c]}
    ELSE IF NoRepeatN(dimension, g) THEN CompletionsFrom(dimension, g, 0) ELSE {}

NoRepeat(g) == NoRepeatN(dimension, g)
IsFull(g) == IsFullN(dimension, g)

\* the number of empty cells of g
Empties(g) == Cardinality({rc \in (0..(dimension - 1)) \X (0..(dimension - 1)) : g[rc[1]][rc[2]] = 0})

\* the top-level call has returned v
Returned(v) == stack = <<>> /\ calls > 0 /\ ret = v

(***************************************************************************)
(* Properties                                                              *)
(***************************************************************************)

\* C1: on a well-formed board whose side is a perfect square >= 4, whenever the
\* top-level solve has returned True the grid has no empty cell and no digit
\* occurs twice in a row, a column or a block.
C1_TrueMeansSolved ==
    (WellFormed /\ SquareSide /\ Returned("true")) => (IsFull(grid) /\ NoRepeat(grid))

\* C2: solve returns False only when no solution exists: on a well-formed board
\* of a side the solver is meant for, if the grid the call began with has a
\* valid completion then the finished top-level call has returned True.
C2_SolvableReturnsTrue ==
    (WellFormed /\ InScope /\ stack = <<>> /\ calls > 0 /\ Completions(start) # {})
        => ret = "true"

\* solve has returned True on a solvable board after undoing an assignment
C2_Witness ==
    /\ WellFormed /\ InScope /\ Returned("true")
    /\ Completions(start) # {}
    /\ undos > 0

\* C3: whenever an invocation of solve (top-level or nested) has returned False,
\* every cell holds the value it held when that invocation began.
C3_FalseRestoresGrid == ret = "false" => grid = last.entry

\* a nested invocation has returned False after making an assignment of its own
C3_Witness == ret = "false" /\ stack # <<>> /\ last.tried > 0 /\ Len(stack) >= 2

\* some row of g holds the same non-zero digit twice
RowRepeat(g) ==
    \E r \in 0..(dimension - 1), c \in 0..(dimension - 1), c2 \in 0..(dimension - 1) :
        c # c2 /\ g[r][c] # 0 /\ g[r][c] = g[r][c2]

\* C4: on a well-formed board whose initial grid has the same non-zero digit
\* twice in one row, the top-level solve returns False and leaves the grid as
\* it was before the call.
C4_RowRepeatReturnsFalse ==
    (WellFormed /\ InScope /\ stack = <<>> /\ calls = 1 /\ RowRepeat(start))
        => (ret = "false" /\ grid = start)

\* C5: on a well-formed board with exactly one valid completion, the finished
\* top-level solve has returned True and the grid is that completion.
C5_UniqueCompletionFound ==
    (WellFormed /\ InScope /\ stack = <<>> /\ calls > 0 /\ Cardinality(Completions(start)) = 1)
        => (ret = "true" /\ grid \in Completions(start))

\* solve has filled in several empty cells of a board with a unique completion
C5_Witness ==
    /\ WellFormed /\ InScope /\ Returned("true") /\ calls = 1
    /\ Cardinality(Completions(start)) = 1
    /\ Empties(start) > MaxBlank
    /\ grid \in Completions(start)

\* C6: a call of solve on a board with no empty cell returns True and no step
\* of it writes a cell; in particular a second call right after a successful
\* one returns True and leaves the grid as the first call left it.
C6_FullBoardIsNoOp ==
    /\ [](stack = <<>> /\ calls > 0 /\ IsFull(start) => ret = "true" /\ grid = start)
    /\ [](stack = <<>> /\ calls > 1 => ret = "true" /\ grid = start)
    /\ [][calls > 0 /\ IsFull(start) => grid' = grid]_vars

\* the second call has returned after a first call that filled in empty cells
C6_Witness ==
    /\ Returned("true") /\ calls = 2
    /\ IsFull(start) /\ grid = start
    /\ ~ IsFullN(dimension, InitGrid(numbers))

\* number v occurs in row r, in column c, or in the aligned block of side
\* B = sqrt(dimension) whose top-left cell is ((r div B) * B, (c div B) * B)
Occurs(g, r, c, v) ==
    LET B == ISqrt(dimension)
        top == (r \div B) * B
        left == (c \div B) * B
    IN  \/ \E c2 \in 0..(dimension - 1) : g[r][c2] = v
        \/ \E r2 \in 0..(dimension - 1) : g[r2][c] = v
        \/ \E r2 \in top..(top + B - 1), c2 \in left..(left + B - 1) : g[r2][c2] = v

\* C7: on a board whose side is a perfect square >= 4, for every cell (r, c) and
\* every number v, is_valid(r, c, v) returns (never raises), and returns False
\* iff v occurs in row r, column c or the block of (r, c); a step that only
\* tests a candidate and rejects it writes no cell.
C7_IsValidIffAbsent ==
    /\ [](SquareSide =>
            \A r \in 0..(dimension - 1), c \in 0..(dimension - 1), v \in 0..(dimension + 1) :
                /\ ~ is_valid_raises(grid, r, c, v)
                /\ is_valid(grid, r, c, v) <=> ~ Occurs(grid, r, c, v))
    /\ [][(SquareSide /\ stack # <<>> /\ Top.pc = "try" /\ Top.num <= LastCandidate
            /\ ~ is_valid(grid, Top.row, Top.col, Top.num)) => grid' = grid]_vars

\* solve is testing, at the cell it chose, a digit that is absent from the row
\* and the column of the cell; is_valid rejects it because of the block alone
C7_Witness ==
    /\ SquareSide
    /\ stack # <<>> /\ Top.pc = "try" /\ Top.num <= LastCandidate
    /\ \A k \in 0..(dimension - 1) : grid[Top.row][k] # Top.num /\ grid[k][Top.col] # Top.num
    /\ ~ is_valid(grid, Top.row, Top.col, Top.num)

\* the empty cells of g, and the number of valid candidates of a cell
EmptyCells(g) == {rc \in (0..(dimension - 1)) \X (0..(dimension - 1)) : g[rc[1]][rc[2]] = 0}
Count(g, rc) == Cardinality({v \in 1..dimension : is_valid(g, rc[1], rc[2], v)})

\* solve is about to call find_best_cell on the current grid
AtSelect == stack # <<>> /\ Top.pc = "select"

\* C8: called on a board of a side the solver is meant for, find_best_cell
\* returns None exactly when no cell is empty, and otherwise an empty cell whose
\* number of valid candidates is the least among all empty cells.
C8_BestCellIsMinimal ==
    (InScope /\ AtSelect) =>
        LET best == find_best_cell(grid)
        IN  /\ (best = None) <=> (EmptyCells(grid) = {})
            /\ best # None =>
                    /\ best \in EmptyCells(grid)
                    /\ \A rc \in EmptyCells(grid) : Count(grid, best) <= Count(grid, rc)

\* cell rc is scanned before cell rc2 (row-major order)
Before(rc, rc2) == rc[1] * dimension + rc[2] < rc2[1] * dimension + rc2[2]

\* rc is the one and only empty cell with exactly one valid candidate
OnlyForced(g, rc) ==
    /\ rc \in EmptyCells(g)
    /\ \A rc2 \in EmptyCells(g) : Count(g, rc2) = 1 <=> rc2 = rc

\* C9 as stated: if exactly one empty cell has exactly one valid candidate,
\* find_best_cell returns it, whatever the counts of the cells scanned before it.
C9_ForcedCellAlways ==
    (InScope /\ AtSelect) =>
        \A rc \in EmptyCells(grid) : OnlyForced(grid, rc) => find_best_cell(grid) = rc

\* C9 (amended): if exactly one empty cell has exactly one valid candidate and
\* no empty cell scanned before it has zero valid candidates, find_best_cell
\* returns it, wherever it lies and however many candidates (two or more) the
\* empty cells scanned before it have.
C9_ForcedCellUnlessDeadEarlier ==
    (InScope /\ AtSelect) =>
        \A rc \in EmptyCells(grid) :
            (OnlyForced(grid, rc)
                /\ \A rc2 \in EmptyCells(grid) : Before(rc2, rc) => Count(grid, rc2) # 0)
            => find_best_cell(grid) = rc

\* find_best_cell returns the only forced cell although an empty cell scanned
\* before it has more candidates
C9_Witness ==
    /\ InScope /\ AtSelect
    /\ \E rc \in EmptyCells(grid) :
        /\ OnlyForced(grid, rc)
        /\ \E rc2 \in EmptyCells(grid) : Before(rc2, rc) /\ Count(grid, rc2) > 1
        /\ \A rc2 \in EmptyCells(grid) : Before(rc2, rc) => Count(grid, rc2) # 0
        /\ find_best_cell(grid) = rc

\* C10: on a board built from a list whose length is a perfect square and whose
\* values lie in [0, dimension], no IndexError (or other error) escapes from solve.
C10_NeverFaults == WellFormed => ret # "error"

\* C11: for every input list of length N * N with values in [0, N], the
\* constructed board has dimension = N, block_size * block_size = dimension
\* when N >= 4, and block_size = dimension when N <= 3.
C11_DimensionAndBlockSize ==
    \A N \in 0..Len(numbers) :
        (Len(numbers) = N * N /\ \A i \in 1..Len(numbers) : numbers[i] \in 0..N)
            => /\ dimension = N
               /\ N >= 4 => block_size * block_size = dimension
               /\ N <= 3 => block_size = dimension

\* the length of the list is a perfect square
SquareLength(nums) == ISqrt(Len(nums)) * ISqrt(Len(nums)) = Len(nums)

\* every value that construction reads lies in [0, dimension]
ValuesInRange(nums) == \A i \in 1..Len(nums) : nums[i] \in 0..InitDimension(nums)

\* C12: when the length of the list is not a perfect square or a value lies
\* outside [0, dimension], construction fails and no board exists (so none is
\* ever in a state of this model).
C12_MalformedInputRejected ==
    (~ SquareLength(numbers) \/ ~ ValuesInRange(numbers)) => init_raises(numbers)

\* while solve runs, a frame never goes back to a number it has tried: every
\* step that keeps the frame on top of the stack after its cell was chosen moves
\* it to a larger number, a nested call leaves the frame at its number, and the
\* frames below the top do not change
NoRevisit ==
    stack # <<>> =>
        /\ \A i \in 1..(Len(stack) - 1) : i <= Len(stack') => stack'[i] = stack[i]
        /\ (Len(stack') = Len(stack) /\ Top.pc # "select") =>
               /\ stack'[Len(stack')].num > Top.num
               /\ stack'[Len(stack')].entry = Top.entry
        /\ Len(stack') > Len(stack) =>
               /\ Len(stack') = Len(stack) + 1
               /\ stack'[Len(stack)].num = Top.num
               /\ stack'[Len(stack)].pc = "wait"

\* C13: every top-level call of solve on a board built from a well-formed list
\* eventually ends, returning True or False, and while it runs no frame tries a
\* number twice.
C13_TerminatesTrueOrFalse ==
    /\ (WellFormed /\ stack # <<>>) ~> (stack = <<>> /\ ret \in {"true", "false"})
    /\ [][NoRevisit]_vars

\* the same on the boards whose side is at most 3 or a perfect square, where
\* get_block stays inside the grid
TerminatesWhereBlocksTile ==
    /\ (InScope /\ stack # <<>>) ~> (stack = <<>> /\ ret \in {"true", "false"})
    /\ [][NoRevisit]_vars

\* a top-level call has ended after its search withdrew two or more numbers
TerminatedAfterUndos ==
    /\ InScope /\ stack = <<>> /\ calls > 0
    /\ ret \in {"true", "false"}
    /\ undos >= 2

\* C14: while solve runs, the number of nested invocations below the top-level
\* one is at most the number of cells that were empty when the top-level call
\* began (so at most dimension * dimension), and each nested invocation belongs
\* to a cell of its own that is filled now and was empty at the start: the cell
\* its caller set before calling.
C14_DepthBoundedByEmpties ==
    stack # <<>> =>
        /\ Len(stack) - 1 <= Empties(start)
        /\ Len(stack) - 1 <= dimension * dimension
        /\ \A i \in 1..(Len(stack) - 1) :
               /\ stack[i].pc = "wait"
               /\ start[stack[i].row][stack[i].col] = 0
               /\ grid[stack[i].row][stack[i].col] # 0
        /\ \A i \in 1..(Len(stack) - 1), j \in 1..(Len(stack) - 1) :
               (stack[i].row = stack[j].row /\ stack[i].col = stack[j].col) => i = j

\* the recursion is as deep as the bound allows: one nested invocation for each
\* of the three or more cells that were empty at the start
C14_Witness ==
    /\ stack # <<>>
    /\ Empties(start) >= 3
    /\ Len(stack) - 1 = Empties(start)

\* C15: on a board built from a list of dimension * dimension values in
\* [0, dimension], in every state the grid has dimension rows of dimension
\* cells and every cell holds a value in [0, dimension]; and on any board a
\* step of solve that changes a cell writes a digit 1..dimension or 0.
C15_GridShapeAndRange ==
    /\ [](WellFormed =>
            /\ DOMAIN grid = 0..(dimension - 1)
            /\ \A r \in 0..(dimension - 1) :
                   /\ DOMAIN grid[r] = 0..(dimension - 1)
                   /\ \A c \in 0..(dimension - 1) : grid[r][c] \in 0..dimension)
    /\ [][\A r \in 0..(dimension - 1), c \in 0..(dimension - 1) :
             grid'[r][c] # grid[r][c] => grid'[r][c] \in 0..dimension]_vars

\* solve has withdrawn a number and the largest digit stands in a cell that was
\* empty at the start
C15_Witness ==
    /\ WellFormed /\ dimension >= 2
    /\ undos > 0
    /\ \E r \in 0..(dimension - 1), c \in 0..(dimension - 1) :
           start[r][c] = 0 /\ grid[r][c] = dimension

\* the cell of the non-empty set S of cells that the row-major scan meets first
FirstOf(S) == CHOOSE rc \in S : \A rc2 \in S : rc2 = rc \/ Before(rc, rc2)

\* the number of valid candidates of every empty cell of g
Counts(g) == [rc \in EmptyCells(g) |-> Count(g, rc)]

\* the empty cells with exactly one valid candidate, cnt being the counts
Forced(cnt) == {rc \in DOMAIN cnt : cnt[rc] = 1}

\* the empty cells with the least number of valid candidates
Fewest(cnt) == {rc \in DOMAIN cnt : \A rc2 \in DOMAIN cnt : cnt[rc] <= cnt[rc2]}

\* the first forced cell is met before any empty cell without a candidate
ForcedComesFirst(cnt) ==
    /\ Forced(cnt) # {}
    /\ \A rc2 \in DOMAIN cnt : Before(rc2, FirstOf(Forced(cnt))) => cnt[rc2] # 0

\* C16: on a board with an empty cell, find_best_cell returns the first empty
\* cell in row-major order that has exactly one valid candidate if no empty
\* cell before it has none; otherwise it returns the row-major first of the
\* empty cells with the least number of valid candidates on the whole board.
C16_TiesBrokenByScanOrder ==
    (InScope /\ AtSelect /\ EmptyCells(grid) # {}) =>
        LET cnt == Counts(grid)
        IN  find_best_cell(grid) = IF ForcedComesFirst(cnt)
                                   THEN FirstOf(Forced(cnt))
                                   ELSE FirstOf(Fewest(cnt))

\* solve is about to choose a cell and two or more empty cells tie for the least
\* number of candidates, which is two or more
C16_Witness ==
    /\ InScope /\ AtSelect
    /\ Cardinality(Fewest(Counts(grid))) >= 2
    /\ \A rc \in Fewest(Counts(grid)) : Count(grid, rc) >= 2
    /\ find_best_cell(grid) = FirstOf(Fewest(Counts(grid)))

\* C17: on a board of dimension 3 or less get_block returns the whole grid
\* whatever the block indices are and never reads outside the grid, so for every
\* cell (r, c) and value v, is_valid(r, c, v) is true exactly when v stands in
\* no cell of the grid.
C17_SmallBoardIsOneBlock ==
    dimension <= 3 =>
        /\ \A block_row \in 0..dimension, block_col \in 0..dimension :
               /\ ~ get_block_raises(block_row, block_col)
               /\ get_block(grid, block_row, block_col) = grid
        /\ \A r \in 0..(dimension - 1), c \in 0..(dimension - 1), v \in 0..dimension :
               /\ ~ is_valid_raises(grid, r, c, v)
               /\ is_valid(grid, r, c, v) <=>
                      \A r2 \in 0..(dimension - 1), c2 \in 0..(dimension - 1) : grid[r2][c2] # v

\* on a board of side 2 or 3 solve tests a number that stands neither in the
\* row nor in the column of the chosen cell but elsewhere in the grid, and
\* is_valid rejects it
C17_Witness ==
    /\ dimension \in 2..3
    /\ stack # <<>> /\ Top.pc = "try" /\ Top.num <= LastCandidate
    /\ \A k \in 0..(dimension - 1) : grid[Top.row][k] # Top.num /\ grid[k][Top.col] # Top.num
    /\ \E r2 \in 0..(dimension - 1), c2 \in 0..(dimension - 1) : grid[r2][c2] = Top.num
    /\ ~ is_valid(grid, Top.row, Top.col, Top.num)

\* C18: during and after a top-level call of solve every cell that was filled
\* when the call began holds the value it held then; a step that changes a cell
\* changes the cell chosen by the frame on top of the stack, which was empty at
\* the start; and that cell is empty whenever the frame is about to test a
\* number for it.
C18_GivensNeverWritten ==
    /\ [](calls > 0 =>
            \A r \in 0..(dimension - 1), c \in 0..(dimension - 1) :
                start[r][c] # 0 => grid[r][c] = start[r][c])
    /\ [][\A r \in 0..(dimension - 1), c \in 0..(dimension - 1) :
             grid'[r][c] # grid[r][c] =>
                 /\ stack # <<>>
                 /\ r = Top.row /\ c = Top.col
                 /\ start[r][c] = 0]_vars
    /\ []((stack # <<>> /\ Top.pc = "try") => grid[Top.row][Top.col] = 0)

\* a call that withdrew a number has returned True on a board that had given
\* cells, and it filled a cell
C18_Witness ==
    /\ Returned("true") /\ undos > 0
    /\ \E r \in 0..(dimension - 1), c \in 0..(dimension - 1) : start[r][c] # 0
    /\ \E r \in 0..(dimension - 1), c \in 0..(dimension - 1) : start[r][c] = 0 /\ grid[r][c] # 0

\* C19: on a board whose side is at most 3 or a perfect square, in every state
\* from the start of a top-level call on, each cell that is filled now and was
\* empty when the call began holds a digit 1..dimension that stands in no other
\* cell of its row, its column or its block; and whenever a frame is about to
\* test a number, its cell is 0 and the whole grid is as it was when the frame
\* began.
C19_AssignedCellsFit ==
    (InScope /\ calls > 0) =>
        /\ \A r \in 0..(dimension - 1), c \in 0..(dimension - 1) :
               (start[r][c] = 0 /\ grid[r][c] # 0) =>
                   /\ grid[r][c] \in 1..dimension
                   /\ Fits(dimension, grid, r, c, grid[r][c])
        /\ (stack # <<>> /\ Top.pc = "try") =>
               /\ grid[Top.row][Top.col] = 0
               /\ grid = Top.entry

\* a nested frame whose first accepted number was withdrawn is about to test a
\* later number, while the cells of its callers stay assigned
C19_Witness ==
    /\ InScope
    /\ Len(stack) >= 2 /\ Top.pc = "try" /\ Top.tried >= 1
    /\ Top.num <= LastCandidate
    /\ is_valid(grid, Top.row, Top.col, Top.num)

====
